---------------------------- MODULE Spec2Model ----------------------------
(***************************************************************************)
(* A model of internal/types.py of the Ticket to Ride engine: the Deck     *)
(* (draw / insert / shuffle on a deque), the Game object (constructor,     *)
(* clone, validMoves) and the object references the Game keeps to its      *)
(* Agent objects.  Python asserts are enabled (the interpreter runs        *)
(* without -O).                                                            *)
(*                                                                         *)
(* A deque is a sequence: index 1 is its left end (appendleft), index Len  *)
(* its right end (pop).  Python None is NoneInt where an int is expected   *)
(* and "None" where a string is expected.                                  *)
(***************************************************************************)
EXTENDS Integers, Sequences, FiniteSets, TLC

VARIABLES
    cards,      \* Deck.cards of the deck under test (SpecDeck)
    initial,    \* the cards that deck was constructed from
    handedOut,  \* every card a draw() call has returned so far, as a sequence
    insertedIn, \* every card an insert() call has put in so far
    outcome,    \* the last Deck call: its name, argument, status and result
    ops,        \* number of Deck calls made so far
    games,      \* the Game objects, in order of creation
    agents,     \* the heap of Agent objects; a reference is an index
    ret,        \* the last validMoves() call: the game and the list returned
    steps       \* number of Game operations performed so far

deckVars == <<cards, initial, handedOut, insertedIn, outcome, ops>>
gameVars == <<games, agents, ret, steps>>
vars == <<cards, initial, handedOut, insertedIn, outcome, ops, games, agents, ret, steps>>

NoneInt == -1

-----------------------------------------------------------------------------
(* Bounds *)

\* longest deck a Deck is constructed from in SpecDeck
MaxDeck == 3
\* largest argument of draw()
MaxDraw == 3
\* longest list handed to insert()
MaxInsert == 2
\* number of Deck calls in one behaviour of SpecDeck
MaxOps == 2
\* longest route of the bounded maps
MaxWeight == 2
\* most cards of one colour in a hand drawn by SpecMoves
MaxHeld == 2
\* most face-up cards in a state drawn by SpecMoves
MaxFaceUp == 2
\* number of validMoves() calls in one behaviour of SpecMoves
MaxCalls == 2
\* cards of the one plain colour in the train car deck of Spec (12 in trainCarDeck)
ColorCopies == 2
\* wildcards in the train car deck of Spec (14 in trainCarDeck)
WildCopies == 2
\* cards the constructor turns face up in Spec (5 in Game.__init__)
FaceUpDeal == 1
\* cards the constructor deals to each player in Spec (4 in Game.__init__)
HandDeal == 1
\* number of Game operations in one behaviour of Spec
MaxSteps == 3
\* number of Game objects in one behaviour of Spec: the first and its clones
MaxGames == 2

-----------------------------------------------------------------------------
(* Card colours *)

\* color_indexing.keys(), in the dict's insertion order
color_indexing == <<"PINK", "WHITE", "BLUE", "YELLOW", "ORANGE", "BLACK", "RED", "GREEN", "WILD">>

\* the card labels the bounded decks and hands are built from
CardKinds == {"PINK", "WILD"}

Range(s) == {s[i] : i \in DOMAIN s}

\* list.count(x)
Count(s, x) == Cardinality({i \in DOMAIN s : s[i] = x})

\* the sequences over S of length at most n
SeqsUpTo(S, n) == UNION {[1..k -> S] : k \in 0..n}

\* the multiset of a list of cards; labels outside CardKinds never occur
BagOf(s) == [k \in CardKinds |-> Count(s, k)]

BagSum(a, b) == [k \in CardKinds |-> a[k] + b[k]]

\* random.shuffle(items): every ordering of the same cards
Shuffles(items) == {s \in [1..Len(items) -> Range(items)] : \A x \in Range(items) : Count(s, x) = Count(items, x)}

-----------------------------------------------------------------------------
(* Deck *)

\* Deck.count
DeckCount(c) == Len(c)

\* the loop of Deck.draw: `number` times cardsDrawn.append(self.cards.pop());
\* pop() on an empty deque raises IndexError, and the cards popped so far,
\* held only by the local list, are gone with the frame
RECURSIVE PopLoop(_, _, _)
PopLoop(c, number, cardsDrawn) ==
    IF number <= 0 THEN [status |-> "ok", cards |-> c, drawn |-> cardsDrawn]
    ELSE IF Len(c) = 0 THEN [status |-> "IndexError", cards |-> c, drawn |-> <<>>]
    ELSE PopLoop(SubSeq(c, 1, Len(c) - 1), number - 1, Append(cardsDrawn, c[Len(c)]))

\* a draw that hands out what is left instead of failing
DeckDrawTruncating(c, number) ==
    IF number <= Len(c) THEN PopLoop(c, number, <<>>) ELSE PopLoop(c, Len(c), <<>>)

\* Deck.draw(number): the assert, then the loop
DeckDraw(c, number) ==
    IF Len(c) > 0 THEN PopLoop(c, number, <<>>)
    ELSE [status |-> "AssertionError", cards |-> c, drawn |-> <<>>]

\* an insert that puts the whole list at the left end as it is (extendleft of
\* the reversed list): the first card inserted ends up farthest from the draw end
DeckInsertBlock(c, new) == new \o c

\* Deck.insert(cards): appendleft, one card after the other
RECURSIVE DeckInsert(_, _)
DeckInsert(c, new) ==
    IF new = <<>> THEN c ELSE DeckInsert(<<new[1]>> \o c, Tail(new))

\* Deck.shuffle: random.shuffle works in place on the temporary list and
\* returns None, so deque(reShuffled) is deque(None), a TypeError raised
\* before self.cards is assigned
DeckShuffle(c) ==
    IF Len(c) > 0 THEN [status |-> "TypeError", cards |-> c]
    ELSE [status |-> "AssertionError", cards |-> c]

\* no Deck call has been made yet
NoOutcome == [op |-> "none", arg |-> 0, status |-> "ok", drawn |-> <<>>, before |-> <<>>]

\* no validMoves() call has returned yet
NoRet == [game |-> 0, actions |-> <<>>, wasOver |-> FALSE]

\* no game exists: the state of the Game variables while a Deck is exercised
GameIdle ==
    /\ games = <<>>
    /\ agents = <<>>
    /\ ret = NoRet
    /\ steps = 0

\* no deck under test: the state of the Deck variables while a Game is exercised
DeckIdle ==
    /\ cards = <<>>
    /\ initial = <<>>
    /\ handedOut = <<>>
    /\ insertedIn = <<>>
    /\ outcome = NoOutcome
    /\ ops = 0

\* Deck.__init__(items): shuffle(items), then deque(items)
DeckInit ==
    /\ \E items \in SeqsUpTo(CardKinds, MaxDeck) :
          /\ initial = items
          /\ cards \in Shuffles(items)
    /\ handedOut = <<>>
    /\ insertedIn = <<>>
    /\ outcome = NoOutcome
    /\ ops = 0
    /\ GameIdle

CallDraw(number) ==
    /\ ops < MaxOps
    /\ LET r == DeckDraw(cards, number) IN
          /\ cards' = r.cards
          /\ handedOut' = handedOut \o r.drawn
          /\ outcome' = [op |-> "draw", arg |-> number, status |-> r.status, drawn |-> r.drawn, before |-> cards]
    /\ ops' = ops + 1
    /\ UNCHANGED <<initial, insertedIn>>

CallInsert(new) ==
    /\ ops < MaxOps
    /\ cards' = DeckInsert(cards, new)
    /\ insertedIn' = insertedIn \o new
    /\ outcome' = [op |-> "insert", arg |-> Len(new), status |-> "ok", drawn |-> <<>>, before |-> cards]
    /\ ops' = ops + 1
    /\ UNCHANGED <<initial, handedOut>>

CallShuffle ==
    /\ ops < MaxOps
    /\ LET r == DeckShuffle(cards) IN
          /\ cards' = r.cards
          /\ outcome' = [op |-> "shuffle", arg |-> 0, status |-> r.status, drawn |-> <<>>, before |-> cards]
    /\ ops' = ops + 1
    /\ UNCHANGED <<initial, handedOut, insertedIn>>

-----------------------------------------------------------------------------
(* Actions, routes, agents *)

\* Action(0, route, colorsUsed): the route is named by its index
ClaimRoute(route, colorsUsed) ==
    [action |-> 0, route |-> route, colorsUsed |-> colorsUsed, colorToDraw |-> "None", askingForDeal |-> "None", takeDests |-> <<>>]

\* Action(1, colorToDraw=card)
DrawVisible(card) ==
    [action |-> 1, route |-> NoneInt, colorsUsed |-> <<>>, colorToDraw |-> card, askingForDeal |-> "None", takeDests |-> <<>>]

\* Action(2)
DrawHidden ==
    [action |-> 2, route |-> NoneInt, colorsUsed |-> <<>>, colorToDraw |-> "None", askingForDeal |-> "None", takeDests |-> <<>>]

\* Action(3, askingForDeal=True)
AskForDeal ==
    [action |-> 3, route |-> NoneInt, colorsUsed |-> <<>>, colorToDraw |-> "None", askingForDeal |-> "True", takeDests |-> <<>>]

\* Action(3, askingForDeal=False, takeDests=take)
TakeDests(take) ==
    [action |-> 3, route |-> NoneInt, colorsUsed |-> <<>>, colorToDraw |-> "None", askingForDeal |-> "False", takeDests |-> take]

\* movePerforming = None
NoAction ==
    [action |-> NoneInt, route |-> NoneInt, colorsUsed |-> <<>>, colorToDraw |-> "None", askingForDeal |-> "None", takeDests |-> <<>>]

\* listDestTakes()
listDestTakes == << <<0>>, <<1>>, <<2>>, <<0, 1>>, <<0, 2>>, <<1, 2>>, <<0, 1, 2>> >>

\* the flattening of a sequence of sequences
RECURSIVE Flatten(_)
Flatten(ss) == IF ss = <<>> THEN <<>> ELSE ss[1] \o Flatten(Tail(ss))

\* validMoves, a route of a concrete colour (lines 259-271): the
\* colorsUsed lists appended for it, in order
ColorPayments(color, weight, numColor, numWilds) ==
    IF numColor = 0 THEN <<>>
    ELSE IF numColor < weight THEN
        IF numWilds > 0 THEN
            IF numWilds + numColor = weight THEN << <<color, "WILD">> >>
            ELSE IF numWilds + numColor > weight THEN
                << <<color, "WILD">> >> \o (IF numWilds < weight THEN << <<"WILD", color>> >> ELSE <<>>)
            ELSE <<>>
        ELSE <<>>
    ELSE
        << <<color>> >> \o (IF 0 < numWilds /\ numWilds < weight THEN << <<"WILD", color>> >> ELSE <<>>)

\* validMoves, one pass of the loop over color_indexing.keys() for a GRAY
\* route (lines 275-288)
GrayColorPayments(color, weight, numColor, numWilds) ==
    IF numColor = 0 THEN <<>>
    ELSE IF numColor < weight THEN
        IF numWilds > 0 THEN
            (IF numWilds + numColor = weight THEN << <<color, "WILD">> >> ELSE <<>>)
            \o (IF numWilds + numColor > weight
                THEN << <<color, "WILD">> >> \o (IF numWilds < weight THEN << <<"WILD", color>> >> ELSE <<>>)
                ELSE <<>>)
        ELSE <<>>
    ELSE
        << <<color>> >> \o (IF 0 < numWilds /\ numWilds < weight THEN << <<"WILD", color>> >> ELSE <<>>)

\* the colours the GRAY branch loops over: color_indexing.keys() (line 273)
GrayLoopColors == color_indexing

\* validMoves, a GRAY route (lines 273-290): the loop, then the pure
\* wildcard payment
GrayPayments(weight, trainCards, numWilds) ==
    Flatten([i \in DOMAIN GrayLoopColors |->
                GrayColorPayments(GrayLoopColors[i], weight, Count(trainCards, GrayLoopColors[i]), numWilds)])
    \o (IF numWilds >= weight THEN << <<"WILD">> >> ELSE <<>>)

\* the owner value for which validMoves goes on to analyse a route
\* (line 252: if route[2]['owner'] != '': continue)
OwnerAnalysed == ""

\* validMoves, the body of the loop over the board's edges for one route
\* (lines 252-290): the ClaimRoute actions appended for it
RouteActions(route, trainCards) ==
    LET numWilds == Count(trainCards, "WILD")
        payments == IF route.owner # OwnerAnalysed THEN <<>>
                    ELSE IF route.color # "GRAY"
                         THEN ColorPayments(route.color, route.weight, Count(trainCards, route.color), numWilds)
                         ELSE GrayPayments(route.weight, trainCards, numWilds)
    IN  [i \in DOMAIN payments |-> ClaimRoute(route.index, payments[i])]

\* validMoves, FreeChoice (lines 249-297)
FreeChoiceActions(game, trainCards) ==
    Flatten([i \in DOMAIN game.board |-> RouteActions(game.board[i], trainCards)])
    \o [i \in DOMAIN game.faceUpCards |-> DrawVisible(game.faceUpCards[i])]
    \o (IF DeckCount(game.trainCarDeck) > 0 THEN <<DrawHidden>> ELSE <<>>)
    \o (IF DeckCount(game.destinationsDeck) >= 3 THEN <<AskForDeal>> ELSE <<>>)

\* the second draw after a visible card, offering the wildcards as well
AfterVisibleActionsWithWild(game) ==
    [i \in DOMAIN game.faceUpCards |-> DrawVisible(game.faceUpCards[i])]
    \o (IF DeckCount(game.trainCarDeck) >= 1 THEN <<DrawHidden>> ELSE <<>>)

\* the second draw after a visible card, offering the hidden draw even when
\* the hidden deck is empty
AfterVisibleActionsAlwaysHidden(game) ==
    LET drawable == SelectSeq(game.faceUpCards, LAMBDA card : card # "WILD")
    IN  [i \in DOMAIN drawable |-> DrawVisible(drawable[i])] \o <<DrawHidden>>

\* validMoves, movePerforming.action == 1 (lines 298-302)
AfterVisibleActions(game) ==
    LET drawable == SelectSeq(game.faceUpCards, LAMBDA card : card # "WILD")
    IN  [i \in DOMAIN drawable |-> DrawVisible(drawable[i])]
        \o (IF DeckCount(game.trainCarDeck) >= 1 THEN <<DrawHidden>> ELSE <<>>)

\* the second draw after a hidden card, offering a destination deal as well
AfterHiddenActionsWithDeal(game) ==
    [i \in DOMAIN game.faceUpCards |-> DrawVisible(game.faceUpCards[i])]
    \o (IF DeckCount(game.trainCarDeck) >= 1 THEN <<DrawHidden>> ELSE <<>>)
    \o (IF DeckCount(game.destinationsDeck) >= 3 THEN <<AskForDeal>> ELSE <<>>)

\* validMoves, movePerforming.action == 2 (lines 303-306)
AfterHiddenActions(game) ==
    [i \in DOMAIN game.faceUpCards |-> DrawVisible(game.faceUpCards[i])]
    \o (IF DeckCount(game.trainCarDeck) >= 1 THEN <<DrawHidden>> ELSE <<>>)

\* a destination decision that cannot keep all three cards
DestinationActionsProper ==
    [i \in 1..(Len(listDestTakes) - 1) |-> TakeDests(listDestTakes[i])]

\* validMoves, movePerforming.action == 3 (lines 307-309)
DestinationActions ==
    [i \in DOMAIN listDestTakes |-> TakeDests(listDestTakes[i])]

\* validMoves: the list it returns (lines 244-309, 316); trainCards is
\* self.makingNextMove.trainCards
ValidMovesList(game, trainCards) ==
    IF game.gameOver THEN <<>>
    ELSE IF game.movePerforming = NoAction THEN FreeChoiceActions(game, trainCards)
    ELSE IF game.movePerforming.action = 1 THEN AfterVisibleActions(game)
    ELSE IF game.movePerforming.action = 2 THEN AfterHiddenActions(game)
    ELSE IF game.movePerforming.action = 3 THEN DestinationActions
    ELSE <<>>

\* an enumeration that ends the game without recording who was stuck
ValidMovesGameUnrecorded(game, trainCards, turnOrder) ==
    IF ~game.gameOver /\ Len(ValidMovesList(game, trainCards)) = 0
    THEN [game EXCEPT !.gameOver = TRUE]
    ELSE game

\* an enumeration that records the stuck player again on a game that is over
ValidMovesGameRerecorded(game, trainCards, turnOrder) ==
    IF Len(ValidMovesList(game, trainCards)) = 0
    THEN [game EXCEPT !.gameOver = TRUE, !.endedGame = turnOrder]
    ELSE game

\* validMoves: the game it leaves behind (lines 246, 311-314); turnOrder is
\* self.makingNextMove.turnOrder
ValidMovesGame(game, trainCards, turnOrder) ==
    IF ~game.gameOver /\ Len(ValidMovesList(game, trainCards)) = 0
    THEN [game EXCEPT !.gameOver = TRUE, !.endedGame = turnOrder]
    ELSE game

-----------------------------------------------------------------------------
(* Board and Game *)

\* getRoutes(map): the routes of a map file, indexed from 0 in file order.
\* The bounded maps have a PINK route and a GRAY route beside it between
\* the same two cities, and one more GRAY route
MapRoutes(w1, w2) ==
    << [city1 |-> "A", city2 |-> "B", weight |-> w1, color |-> "PINK", index |-> 0],
       [city1 |-> "B", city2 |-> "A", weight |-> w1, color |-> "GRAY", index |-> 1],
       [city1 |-> "B", city2 |-> "C", weight |-> w2, color |-> "GRAY", index |-> 2] >>

Maps == {MapRoutes(w1, w2) : w1, w2 \in 1..MaxWeight}

\* the owner initBoard gives every edge ('owner': None)
OwnerBuilt == "None"

\* board.has_edge(u, v) of an undirected multigraph
HasEdge(board, u, v) ==
    \E i \in DOMAIN board : {board[i].city1, board[i].city2} = {u, v}

Edge(route) ==
    [city1 |-> route.city1, city2 |-> route.city2, weight |-> route.weight, color |-> route.color, owner |-> OwnerBuilt, index |-> route.index]

\* initBoard, the generator handed to add_edges_from, consumed edge by edge
RECURSIVE AddEdges(_, _, _)
AddEdges(board, routes, players) ==
    IF routes = <<>> THEN board
    ELSE IF players = 4 \/ ~HasEdge(board, routes[1].city1, routes[1].city2)
         THEN AddEdges(Append(board, Edge(routes[1])), Tail(routes), players)
         ELSE AddEdges(board, Tail(routes), players)

\* initBoard(map, players): the edges, in the order board.edges() lists them
initBoard(map, players) == AddEdges(<<>>, map, players)

\* destinationDeal = None
NoDeal == <<NoneInt>>

\* validMoves(): the call on game g
ValidMovesCall(g) ==
    LET game == games[g]
        mover == agents[game.makingNextMove]
    IN  /\ games' = [games EXCEPT ![g] = ValidMovesGame(game, mover.trainCards, mover.turnOrder)]
        /\ ret' = [game |-> g, actions |-> ValidMovesList(game, mover.trainCards), wasOver |-> game.gameOver]
        /\ steps' = steps + 1
        /\ UNCHANGED agents

-----------------------------------------------------------------------------
(* Game construction and clone *)

\* trainCarDeck(): the recipe before Deck() shuffles it, here with one plain
\* colour
TrainRecipe == [i \in 1..(ColorCopies + WildCopies) |-> IF i <= ColorCopies THEN "PINK" ELSE "WILD"]

\* getDestinationCards(map): the destination cards, named by their index
MapDestinations == <<0, 1, 2>>

\* the orders Deck(deck) can leave the train car deck in
TrainOrders == Shuffles(TrainRecipe)

\* the orders Deck(self.destinationCards) can leave the destination deck in
DestOrders == Shuffles(MapDestinations)

\* the map of the games of Spec
TheMap == MapRoutes(1, 2)

\* Agent(name), before a game takes it
NewAgent == [turnOrder |-> NoneInt, trainCards |-> <<>>, destinationCards |-> <<>>]

\* Game.__init__, the loop over the players (lines 198-200): each player
\* object handed in gets its turn order and a hand drawn from the deck
RECURSIVE DealHands(_, _, _, _)
DealHands(heap, deck, players, i) ==
    IF i > Len(players) THEN [ok |-> TRUE, heap |-> heap, deck |-> deck]
    ELSE LET d == DeckDraw(deck, HandDeal) IN
         IF d.status # "ok" THEN [ok |-> FALSE, heap |-> heap, deck |-> d.cards]
         ELSE DealHands([heap EXCEPT ![players[i]] = [@ EXCEPT !.turnOrder = i - 1, !.trainCards = d.drawn]],
                        d.cards, players, i + 1)

\* Game.__init__(map, players, logs, draw) (lines 180-201): players is a list
\* of references into the heap, trainOrder and destOrder are the orders the
\* two Deck() calls shuffle their cards into
GameInit(map, players, heap, trainOrder, destOrder) ==
    LET faceUp == DeckDraw(trainOrder, FaceUpDeal)
        dealt == DealHands(heap, faceUp.cards, players, 1)
    IN  [ok |-> faceUp.status = "ok" /\ dealt.ok,
         heap |-> dealt.heap,
         game |-> [gameOver |-> FALSE, lastTurn |-> FALSE, endedGame |-> NoneInt,
                   turn |-> 1 - Len(players), movePerforming |-> AskForDeal,
                   board |-> initBoard(map, Len(players)),
                   faceUpCards |-> faceUp.drawn, trainCarDeck |-> dealt.deck,
                   destinationDeal |-> NoDeal, destinationsDeck |-> destOrder,
                   players |-> players, makingNextMove |-> players[1]]]

\* deepcopy(self.players): a new Agent object per player, appended to the heap
CopiedPlayers(heap, players) == [i \in DOMAIN players |-> Len(heap) + i]

HeapWithCopies(heap, refs) == heap \o [i \in DOMAIN refs |-> heap[refs[i]]]

\* a clone whose makingNextMove is the Agent object of the game cloned
CloneSharingMover(g) ==
    /\ steps < MaxSteps
    /\ Len(games) < MaxGames
    /\ \E trainOrder \in TrainOrders :
          \E made \in {GameInit(TheMap, games[g].players, agents, trainOrder, MapDestinations)} :
          LET self == games[g]
              new == [self EXCEPT !.players = CopiedPlayers(made.heap, self.players)]
          IN  /\ made.ok
              /\ agents' = HeapWithCopies(made.heap, self.players)
              /\ games' = Append(games, new)
    /\ ret' = NoRet
    /\ steps' = steps + 1

\* Game.clone (lines 211-228): the constructor runs on self.players, the
\* very Agent objects of the game cloned; then every field of the new game
\* is replaced by a deep copy of the field of self, players by copies of the
\* Agent objects and makingNextMove by one more copy of its own.  Of what
\* the constructor made only the Agent objects survive line 227, so the
\* order of the new destination deck is not enumerated
Clone(g) ==
    /\ steps < MaxSteps
    /\ Len(games) < MaxGames
    /\ \E trainOrder \in TrainOrders :
          \E made \in {GameInit(TheMap, games[g].players, agents, trainOrder, MapDestinations)} :
          LET self == games[g]
              heap1 == HeapWithCopies(made.heap, self.players)
              heap2 == Append(heap1, made.heap[self.makingNextMove])
              new == [self EXCEPT !.players = CopiedPlayers(made.heap, self.players),
                                  !.makingNextMove = Len(heap2)]
          IN  /\ made.ok
              /\ agents' = heap2
              /\ games' = Append(games, new)
    /\ ret' = NoRet
    /\ steps' = steps + 1

-----------------------------------------------------------------------------
(* The driver: the game loop that applies a move, which is outside           *)
(* types.py and is modelled from the specification of the phases            *)

\* the turn ends: the phase pointer is cleared and the next player in turn
\* order, taken from the players list, becomes the active player
EndTurn(game, heap) ==
    [game EXCEPT !.movePerforming = NoAction,
                 !.turn = @ + 1,
                 !.makingNextMove = game.players[((heap[game.makingNextMove].turnOrder + 1) % Len(game.players)) + 1]]

\* the position of the first face-up card of the colour
FirstFaceUp(game, color) ==
    CHOOSE i \in DOMAIN game.faceUpCards :
        /\ game.faceUpCards[i] = color
        /\ \A j \in 1..(i - 1) : game.faceUpCards[j] # color

RemoveAt(s, i) == SubSeq(s, 1, i - 1) \o SubSeq(s, i + 1, Len(s))

\* a face-up card is taken into the active player's hand and the window is
\* refilled from the hidden deck when it has a card; a plain card taken in
\* FreeChoice opens the continuing visible draw, anything else ends the turn
ApplyDrawVisible(g, color) ==
    LET game == games[g]
        refill == DeckDraw(game.trainCarDeck, 1)
        taken == [game EXCEPT !.faceUpCards = RemoveAt(@, FirstFaceUp(game, color)) \o refill.drawn,
                              !.trainCarDeck = IF refill.status = "ok" THEN refill.cards ELSE @]
    IN  /\ agents' = [agents EXCEPT ![game.makingNextMove].trainCards = Append(@, color)]
        /\ games' = [games EXCEPT ![g] =
                        IF game.movePerforming = NoAction /\ color # "WILD"
                        THEN [taken EXCEPT !.movePerforming = DrawVisible(color)]
                        ELSE EndTurn(taken, agents)]

\* the top card of the hidden deck is taken into the active player's hand;
\* in FreeChoice this opens the continuing hidden draw, otherwise the turn ends
ApplyDrawHidden(g) ==
    LET game == games[g]
        top == DeckDraw(game.trainCarDeck, 1)
        taken == [game EXCEPT !.trainCarDeck = top.cards]
    IN  /\ top.status = "ok"
        /\ agents' = [agents EXCEPT ![game.makingNextMove].trainCards = @ \o top.drawn]
        /\ games' = [games EXCEPT ![g] =
                        IF game.movePerforming = NoAction
                        THEN [taken EXCEPT !.movePerforming = DrawHidden]
                        ELSE EndTurn(taken, agents)]

\* three destination cards are dealt into destinationDeal and the phase
\* pointer awaits the decision
ApplyAskForDeal(g) ==
    LET game == games[g]
        deal == DeckDraw(game.destinationsDeck, 3)
    IN  /\ deal.status = "ok"
        /\ games' = [games EXCEPT ![g] = [game EXCEPT !.destinationsDeck = deal.cards,
                                                      !.destinationDeal = deal.drawn,
                                                      !.movePerforming = AskForDeal]]
        /\ UNCHANGED agents

\* the kept destinations go to the active player, the others back under the
\* destination deck, and the turn ends; without a deal there is nothing to
\* index and the step cannot be taken
ApplyTakeDests(g, take) ==
    LET game == games[g]
        deal == game.destinationDeal
        kept == [i \in DOMAIN take |-> deal[take[i] + 1]]
        left == SelectSeq(deal, LAMBDA d : d \notin Range(kept))
    IN  /\ deal # NoDeal
        /\ agents' = [agents EXCEPT ![game.makingNextMove].destinationCards = @ \o kept]
        /\ games' = [games EXCEPT ![g] =
                        EndTurn([game EXCEPT !.destinationDeal = NoDeal,
                                             !.destinationsDeck = DeckInsert(@, left)], agents)]

\* the driver applies action a to game g.  No ClaimRoute case: on a board
\* built by initBoard validMoves() enumerates none
ApplyAction(g, a) ==
    \/ a.action = 1 /\ ApplyDrawVisible(g, a.colorToDraw)
    \/ a.action = 2 /\ ApplyDrawHidden(g)
    \/ a.action = 3 /\ a.askingForDeal = "True" /\ ApplyAskForDeal(g)
    \/ a.action = 3 /\ a.askingForDeal = "False" /\ ApplyTakeDests(g, a.takeDests)

\* the driver applies one of the actions validMoves() enumerates for the
\* game as it stands
Apply(g) ==
    /\ steps < MaxSteps
    /\ \E a \in Range(ValidMovesList(games[g], agents[games[g].makingNextMove].trainCards)) :
          ApplyAction(g, a)
    /\ ret' = NoRet
    /\ steps' = steps + 1

\* the driver applies one of the actions the last validMoves() call on the
\* game returned
ApplyReturned(g) ==
    /\ steps < MaxSteps
    /\ ret.game = g
    /\ \E a \in Range(ret.actions) : ApplyAction(g, a)
    /\ ret' = NoRet
    /\ steps' = steps + 1

\* the deal that opens the game: the constructor leaves the phase pointer
\* at Action(3, askingForDeal=True) with no deal made
FirstDeal(g) ==
    /\ steps < MaxSteps
    /\ ~games[g].gameOver
    /\ games[g].movePerforming = AskForDeal
    /\ games[g].destinationDeal = NoDeal
    /\ ApplyAskForDeal(g)
    /\ ret' = NoRet
    /\ steps' = steps + 1

\* the driver marks a route as claimed by the active player and the turn ends
ClaimEdge(g, i) ==
    /\ steps < MaxSteps
    /\ ~games[g].gameOver
    /\ games[g].movePerforming = NoAction
    /\ games[g].board[i].owner \in {OwnerBuilt, ""}
    /\ games' = [games EXCEPT ![g] =
                    EndTurn([games[g] EXCEPT !.board[i].owner = "player"], agents)]
    /\ ret' = NoRet
    /\ steps' = steps + 1
    /\ UNCHANGED agents

-----------------------------------------------------------------------------
(* Spec: one game from its construction on, with its clones *)

\* Game(map, [Agent(..), Agent(..)], logs, draw)
Init ==
    /\ \E trainOrder \in TrainOrders, destOrder \in DestOrders :
          LET made == GameInit(TheMap, <<1, 2>>, <<NewAgent, NewAgent>>, trainOrder, destOrder)
          IN  /\ made.ok
              /\ agents = made.heap
              /\ games = <<made.game>>
    /\ ret = NoRet
    /\ steps = 0
    /\ DeckIdle

Next ==
    \/ \E g \in DOMAIN games : steps < MaxSteps /\ ValidMovesCall(g) /\ UNCHANGED deckVars
    \/ \E g \in DOMAIN games : Clone(g) /\ UNCHANGED deckVars
    \/ \E g \in DOMAIN games : Apply(g) /\ UNCHANGED deckVars
    \/ \E g \in DOMAIN games : FirstDeal(g) /\ UNCHANGED deckVars
    \/ \E g \in DOMAIN games, i \in 1..2 : ClaimEdge(g, i) /\ UNCHANGED deckVars

Spec == Init /\ [][Next]_vars

-----------------------------------------------------------------------------
(* SpecMoves: validMoves() on the states of one two-player game *)

\* a hand of i PINK, j WHITE and k WILD cards
Hand(i, j, k) == [n \in 1..(i + j + k) |-> IF n <= i THEN "PINK" ELSE IF n <= i + j THEN "WHITE" ELSE "WILD"]

Hands == {Hand(i, j, k) : i \in 0..MaxHeld, j \in 0..1, k \in 0..MaxHeld}

\* what the owner of an edge can be: as built, the empty string, a player
OwnerValues == {OwnerBuilt, "", "player"}

\* the boards of two-player games, with the owners written since
Boards ==
    {[i \in DOMAIN initBoard(map, 2) |-> [initBoard(map, 2)[i] EXCEPT !.owner = owners[i]]] :
        map \in Maps, owners \in [1..2 -> OwnerValues]}

\* a two-player game in the given state, player `mover` active with `hand`
GameState(board, hand, mover, over, ended, faceUp, deck, dests, deal, phase) ==
    /\ agents = [p \in 1..2 |-> [turnOrder |-> p - 1, trainCards |-> IF p = mover THEN hand ELSE <<>>, destinationCards |-> <<>>]]
    /\ games = << [gameOver |-> over, lastTurn |-> FALSE, endedGame |-> ended,
                   turn |-> 0, movePerforming |-> phase, board |-> board,
                   faceUpCards |-> faceUp, trainCarDeck |-> deck,
                   destinationDeal |-> deal, destinationsDeck |-> dests,
                   players |-> <<1, 2>>, makingNextMove |-> mover] >>

\* FreeChoice in a running game, over the hands and the boards
InitRoutes ==
    \E board \in Boards, hand \in Hands, mover \in 1..2, faceUp \in {<<>>, <<"PINK">>} :
        GameState(board, hand, mover, FALSE, NoneInt, faceUp, <<>>, <<0, 1>>, NoDeal, NoAction)

\* every phase, running or over, over the face-up windows and the decks;
\* endedGame is None while the game runs
InitPhases ==
    \E mover \in 1..2, over \in BOOLEAN, ended \in {NoneInt, 0, 1},
       faceUp \in SeqsUpTo(CardKinds, MaxFaceUp), deck \in {<<>>, <<"PINK">>},
       dests \in {<<0, 1>>, <<0, 1, 2>>}, deal \in {NoDeal, <<3, 4, 5>>},
       phase \in {NoAction, DrawVisible("PINK"), DrawHidden, AskForDeal, TakeDests(<<0, 2>>)} :
        /\ ~over => ended = NoneInt
        /\ GameState(initBoard(MapRoutes(1, 1), 2), Hand(1, 0, 1), mover, over, ended, faceUp, deck, dests, deal, phase)

InitMoves ==
    /\ InitRoutes \/ InitPhases
    /\ ret = NoRet
    /\ steps = 0
    /\ DeckIdle

NextMoves ==
    /\ steps < MaxCalls
    /\ ValidMovesCall(1)
    /\ UNCHANGED deckVars

SpecMoves == InitMoves /\ [][NextMoves]_vars

-----------------------------------------------------------------------------
(* Claims about clone(), checked under Spec *)

\* everything that can be read from game g: its fields, the Agent objects
\* of its players list and the Agent object of makingNextMove
View(g) ==
    [game |-> games[g],
     players |-> [i \in DOMAIN games[g].players |-> agents[games[g].players[i]]],
     mover |-> agents[games[g].makingNextMove]]

\* C1: clone() does not modify the game it is called on: the hands,
\* destination cards and turn orders of its players, its decks, face-up
\* cards, phase pointer, turn counter and flags are after the call what they
\* were before it.
C1_CloneLeavesOriginal ==
    [][Len(games') > Len(games) => \A g \in DOMAIN games : View(g)' = View(g)]_vars

\* C2: once a clone exists the games are independent: no operation changes
\* what can be read from two games, so an operation on a clone leaves the
\* game it was cloned from as it was, and the other way round.
C2_GamesIndependent ==
    [][\A g1, g2 \in DOMAIN games : g1 # g2 => (View(g1)' = View(g1) \/ View(g2)' = View(g2))]_vars

\* C2 witness: a clone has been played on, through the deal and the kept
\* destinations, into the FreeChoice phase while the game it was cloned from
\* is still where the constructor left it.
C2_Witness ==
    /\ Len(games) >= 2
    /\ games[2].movePerforming = NoAction
    /\ \E i \in DOMAIN agents : agents[i].destinationCards # <<>>
    /\ games[1].movePerforming = AskForDeal
    /\ games[1].destinationDeal = NoDeal

-----------------------------------------------------------------------------
(* Claims about validMoves(), checked under SpecMoves *)

\* a validMoves() call has just returned
Called == ret.game # 0

CalledGame == games[ret.game]

CalledHand == agents[CalledGame.makingNextMove].trainCards

\* the call was made in the FreeChoice phase of a game that was not over
FreeChoiceCall == Called /\ ~ret.wasOver /\ CalledGame.movePerforming = NoAction

\* the call was made in phase `action` of a game that was not over
PhaseCall(action) == Called /\ ~ret.wasOver /\ CalledGame.movePerforming.action = action

\* the positions of the returned ClaimRoute actions for the route
ClaimsFor(route) ==
    {i \in DOMAIN ret.actions : ret.actions[i].action = 0 /\ ret.actions[i].route = route.index}

OnlyWild(colorsUsed) == \A i \in DOMAIN colorsUsed : colorsUsed[i] = "WILD"

\* C16: from a freshly constructed Game on, whenever validMoves() returns
\* keep-subset actions (askingForDeal = False with takeDests), destinationDeal
\* holds exactly 3 dealt destinations.
C16_KeepActionsOnlyWithDeal ==
    (Called /\ \E i \in DOMAIN ret.actions :
                  ret.actions[i].action = 3 /\ ret.actions[i].askingForDeal = "False") =>
        (CalledGame.destinationDeal # NoDeal /\ Len(CalledGame.destinationDeal) = 3)

\* C18: in every game, built by the constructor or returned by clone(),
\* makingNextMove is the very Agent object players[makingNextMove.turnOrder].
C18_MoverIsListedPlayer ==
    \A g \in DOMAIN games :
        games[g].makingNextMove = games[g].players[agents[games[g].makingNextMove].turnOrder + 1]

\* C3: in the FreeChoice phase, every route of a concrete colour C and length
\* W that is unowned as initBoard builds it (owner None) has at least one
\* ClaimRoute action in the returned list if and only if the active player
\* holds at least one C card and count(C) + count(WILD) >= W.
C3_ColoredRouteClaimable ==
    FreeChoiceCall =>
        \A i \in DOMAIN CalledGame.board :
            LET route == CalledGame.board[i] IN
            (route.owner = OwnerBuilt /\ route.color # "GRAY") =>
                (ClaimsFor(route) # {}
                  <=> (/\ Count(CalledHand, route.color) >= 1
                       /\ Count(CalledHand, route.color) + Count(CalledHand, "WILD") >= route.weight))

\* C4: in the FreeChoice phase, for every unowned GRAY route of length W
\* (unowned in validMoves' own sense, owner == ''), the returned list holds a
\* ClaimRoute action for it whose spent colours are all WILD if and only if
\* the active player holds at least W wildcards.
C4_GrayPureWildIffEnoughWild ==
    FreeChoiceCall =>
        \A i \in DOMAIN CalledGame.board :
            LET route == CalledGame.board[i] IN
            (route.owner = "" /\ route.color = "GRAY") =>
                ((\E a \in ClaimsFor(route) : OnlyWild(ret.actions[a].colorsUsed))
                  <=> Count(CalledHand, "WILD") >= route.weight)

\* C5: in the FreeChoice phase, when the active player holds only wildcards,
\* at least W of them, an unowned GRAY route of length W (owner == '') gets
\* exactly one ClaimRoute action, the pure-wildcard one.
C5_OnlyWildHandOneGrayClaim ==
    FreeChoiceCall =>
        \A i \in DOMAIN CalledGame.board :
            LET route == CalledGame.board[i] IN
            (/\ route.owner = "" /\ route.color = "GRAY"
             /\ Count(CalledHand, "WILD") = Len(CalledHand)
             /\ Len(CalledHand) >= route.weight) =>
                (/\ Cardinality(ClaimsFor(route)) = 1
                 /\ \A a \in ClaimsFor(route) : OnlyWild(ret.actions[a].colorsUsed))

\* C6 as claimed: whenever validMoves() returns an empty list, gameOver is
\* true after the call and endedGame is the turn order of the player who was
\* active at the call.
C6_EmptyRecordsActivePlayer ==
    (Called /\ ret.actions = <<>>) =>
        (/\ CalledGame.gameOver
         /\ CalledGame.endedGame = agents[CalledGame.makingNextMove].turnOrder)

\* C6 as amended: whenever validMoves() returns an empty list, gameOver is
\* true after the call, and if the game was not over before the call,
\* endedGame is the turn order of the player who was active at the call.
C6_EmptyImpliesOver ==
    (Called /\ ret.actions = <<>>) =>
        (/\ CalledGame.gameOver
         /\ ~ret.wasOver => CalledGame.endedGame = agents[CalledGame.makingNextMove].turnOrder)

\* C6 witness: a call on a running game returned the empty list, with the
\* second player active.
C6_Witness ==
    /\ Called /\ ret.actions = <<>> /\ ~ret.wasOver
    /\ agents[CalledGame.makingNextMove].turnOrder = 1

\* C7 as claimed: in the phases movePerforming.action == 1, 2 and 3 of a game
\* that is not over, validMoves() returns at least one action, whatever the
\* face-up window and the hidden deck hold.
C7_OtherPhasesNeverEmpty ==
    (PhaseCall(1) \/ PhaseCall(2) \/ PhaseCall(3)) => ret.actions # <<>>

\* C7 as amended: in a game that is not over, phase 3 always returns at
\* least one action; phase 1 returns at least one action exactly when the
\* hidden deck holds a card or some face-up card is not a wildcard; phase 2
\* exactly when the hidden deck holds a card or the face-up window is not
\* empty.
C7_NonEmptyWhenDrawable ==
    /\ PhaseCall(3) => ret.actions # <<>>
    /\ PhaseCall(1) =>
          (ret.actions # <<>>
            <=> (\/ DeckCount(CalledGame.trainCarDeck) >= 1
                 \/ \E i \in DOMAIN CalledGame.faceUpCards : CalledGame.faceUpCards[i] # "WILD"))
    /\ PhaseCall(2) =>
          (ret.actions # <<>>
            <=> (DeckCount(CalledGame.trainCarDeck) >= 1 \/ CalledGame.faceUpCards # <<>>))

\* C7 witness: a call in phase 1 with a wildcard and another card face up
\* returned a non-empty list.
C7_Witness ==
    /\ PhaseCall(1) /\ ret.actions # <<>>
    /\ "WILD" \in Range(CalledGame.faceUpCards)
    /\ DeckCount(CalledGame.trainCarDeck) = 0

\* C8, its ClaimRoute clause: no two ClaimRoute actions of a returned list
\* have the same route and the same spent-colours list.
C8_ClaimRoutesDistinct ==
    Called =>
        \A i, j \in DOMAIN ret.actions :
            (i # j /\ ret.actions[i].action = 0 /\ ret.actions[j].action = 0) =>
                ret.actions[i] # ret.actions[j]

\* the positions of the returned list that hold the action
Positions(action) == {i \in DOMAIN ret.actions : ret.actions[i] = action}

\* the returned list is the 7 keep-actions, one per non-empty subset of
\* {0, 1, 2}
SevenKeepActions ==
    /\ Len(ret.actions) = 7
    /\ \A i \in DOMAIN ret.actions :
          ret.actions[i].action = 3 /\ ret.actions[i].askingForDeal = "False"
    /\ \A keep \in (SUBSET {0, 1, 2}) \ {{}} :
          Cardinality({i \in DOMAIN ret.actions :
                          /\ Range(ret.actions[i].takeDests) = keep
                          /\ Len(ret.actions[i].takeDests) = Cardinality(keep)}) = 1

\* C13 as claimed: whenever movePerforming.action == 3, validMoves() returns
\* exactly the 7 keep-actions, whatever the rest of the game state is, the
\* gameOver flag included.
C13_AlwaysSevenKeepActions ==
    (Called /\ CalledGame.movePerforming.action = 3) => SevenKeepActions

\* C13 as amended: whenever movePerforming.action == 3 and the game is not
\* over, validMoves() returns exactly the 7 keep-actions, whatever the decks
\* and destinationDeal hold; when the game is over it returns the empty list.
C13_SevenKeepActionsUnlessOver ==
    (Called /\ CalledGame.movePerforming.action = 3) =>
        IF ret.wasOver THEN ret.actions = <<>> ELSE SevenKeepActions

\* C13 witness: a call in phase 3 of a running game with no deal made and an
\* empty hidden deck returned 7 actions.
C13_Witness ==
    /\ PhaseCall(3) /\ Len(ret.actions) = 7
    /\ CalledGame.destinationDeal = NoDeal
    /\ CalledGame.trainCarDeck = <<>>

\* C14: in the phase movePerforming.action == 1 validMoves() never returns a
\* DrawVisible action naming WILD; in a game that is not over it returns one
\* DrawVisible per face-up card that is not a wildcard, one DrawHidden
\* exactly when the hidden deck holds a card, and nothing else.
C14_SecondVisibleDrawNoWild ==
    /\ (Called /\ CalledGame.movePerforming.action = 1) => Positions(DrawVisible("WILD")) = {}
    /\ PhaseCall(1) =>
          LET faceUp == CalledGame.faceUpCards
              hidden == IF DeckCount(CalledGame.trainCarDeck) >= 1 THEN 1 ELSE 0
          IN  /\ \A card \in Range(faceUp) \ {"WILD"} :
                    Cardinality(Positions(DrawVisible(card))) = Count(faceUp, card)
              /\ Cardinality(Positions(DrawHidden)) = hidden
              /\ Len(ret.actions) = Len(faceUp) - Count(faceUp, "WILD") + hidden

\* C14 witness: a call in phase 1 with a wildcard and a PINK card face up and
\* a card in the hidden deck.
C14_Witness ==
    /\ PhaseCall(1)
    /\ Range(CalledGame.faceUpCards) = {"WILD", "PINK"}
    /\ DeckCount(CalledGame.trainCarDeck) >= 1
    /\ Len(ret.actions) = 2

\* C17: once gameOver is true, a validMoves() call returns the empty list and
\* changes no field of the game nor of its players, endedGame included,
\* whoever is the active player and however many calls were made before.
C17_OverGameUntouched ==
    [][games[1].gameOver => (ret'.actions = <<>> /\ games' = games /\ agents' = agents)]_vars

\* C17 witness: the second call on a game that was over from the start, ended
\* by the second player while the first is the active one.
C17_Witness ==
    /\ Called /\ ret.wasOver /\ steps = 2
    /\ CalledGame.endedGame = 1
    /\ agents[CalledGame.makingNextMove].turnOrder = 0

-----------------------------------------------------------------------------
(* SpecTurn: validMoves() and the application of a returned action, on the   *)
(* states of one two-player game in every phase                              *)

InitTurn ==
    /\ InitPhases
    /\ ret = NoRet
    /\ steps = 0
    /\ DeckIdle

NextTurn ==
    \/ steps < MaxCalls /\ ValidMovesCall(1) /\ UNCHANGED deckVars
    \/ ApplyReturned(1) /\ UNCHANGED deckVars

SpecTurn == InitTurn /\ [][NextTurn]_vars

\* the player after the active one in turn order
NextPlayer(game) ==
    game.players[((agents[game.makingNextMove].turnOrder + 1) % Len(game.players)) + 1]

\* C15: from the phases movePerforming.action == 1 and 2, applying any action
\* the last validMoves() call returned moves the phase pointer back to
\* FreeChoice (movePerforming = None) and advances the active player exactly
\* once: the next player in turn order is active and the turn counter is one
\* higher.
C15_SecondDrawEndsTurn ==
    [][(/\ Called /\ ret' = NoRet
        /\ games[1].movePerforming.action \in {1, 2})
          => (/\ games'[1].movePerforming = NoAction
              /\ games'[1].makingNextMove = NextPlayer(games[1])
              /\ games'[1].turn = games[1].turn + 1)]_vars

\* C15 witness: the first player's turn has ended with a PINK card drawn as
\* the second card of a draw.
C15_Witness ==
    /\ ret = NoRet /\ steps = 2
    /\ games[1].movePerforming = NoAction
    /\ games[1].turn = 1
    /\ games[1].makingNextMove = 2
    /\ agents[1].trainCards = <<"PINK", "WILD", "PINK">>

-----------------------------------------------------------------------------
(* Claims about Deck, checked under SpecDeck *)

\* C9: after any sequence of draw and insert calls, count() is the initial
\* number of cards minus the cards handed out by draw plus the cards
\* inserted, and the cards in the deck together with those handed out are
\* exactly the initial cards together with those inserted.
C9_CardsConserved ==
    /\ DeckCount(cards) = Len(initial) - Len(handedOut) + Len(insertedIn)
    /\ BagSum(BagOf(cards), BagOf(handedOut)) = BagSum(BagOf(initial), BagOf(insertedIn))

\* C10 as claimed: draw(n) succeeds with exactly n cards and count() reduced
\* by n whenever count() >= n, for every n >= 0, and fails, returning
\* nothing, whenever count() < n.
C10_DrawSucceedsIffEnough ==
    outcome.op = "draw" =>
        LET had == Len(outcome.before) IN
        /\ had >= outcome.arg =>
              (outcome.status = "ok" /\ Len(outcome.drawn) = outcome.arg /\ DeckCount(cards) = had - outcome.arg)
        /\ had < outcome.arg => (outcome.status # "ok" /\ outcome.drawn = <<>>)

\* C10 as amended: draw(n) succeeds with exactly n cards and count() reduced
\* by n whenever the deck is not empty and count() >= n, and fails,
\* returning nothing, whenever the deck is empty or count() < n.
C10_DrawSucceedsIffEnoughAndNonEmpty ==
    outcome.op = "draw" =>
        LET had == Len(outcome.before) IN
        /\ (had >= 1 /\ had >= outcome.arg) =>
              (outcome.status = "ok" /\ Len(outcome.drawn) = outcome.arg /\ DeckCount(cards) = had - outcome.arg)
        /\ (had = 0 \/ had < outcome.arg) => (outcome.status # "ok" /\ outcome.drawn = <<>>)

\* C10 witness: draw(3) has failed on a deck of two cards.
C10_Witness ==
    /\ outcome.op = "draw" /\ outcome.arg = 3
    /\ Len(outcome.before) = 2
    /\ outcome.status = "IndexError"

\* C11: shuffle() on a non-empty deck completes without error and leaves the
\* same multiset of cards in the deck, count() unchanged; on an empty deck it
\* fails.
C11_ShufflePermutes ==
    outcome.op = "shuffle" =>
        /\ Len(outcome.before) > 0 =>
              (/\ outcome.status = "ok"
               /\ DeckCount(cards) = Len(outcome.before)
               /\ BagOf(cards) = BagOf(outcome.before))
        /\ Len(outcome.before) = 0 => outcome.status # "ok"

\* the list the last insert() call was given
LastInserted == SubSeq(insertedIn, Len(insertedIn) - outcome.arg + 1, Len(insertedIn))

\* what draw(number) hands out on deck c
Drawn(c, number) == DeckDraw(c, number).drawn

\* C12: after insert([c1..ck]), k >= 1, drawing the whole deck hands out
\* every card that was in the deck before the insert, in the order they
\* would have been drawn, and then c1, .., ck in this order; after an insert
\* into an empty deck, draw(k) returns the inserted list.
C12_InsertKeepsOrder ==
    (outcome.op = "insert" /\ outcome.arg >= 1) =>
        /\ DeckDraw(cards, DeckCount(cards)).status = "ok"
        /\ Drawn(cards, DeckCount(cards)) =
              (IF outcome.before = <<>> THEN <<>> ELSE Drawn(outcome.before, Len(outcome.before)))
                 \o LastInserted
        /\ outcome.before = <<>> => Drawn(cards, outcome.arg) = LastInserted

\* C12 witness: two different cards have been inserted, in one call, into a
\* deck that held a card.
C12_Witness ==
    /\ outcome.op = "insert" /\ outcome.arg = 2
    /\ Len(outcome.before) >= 1
    /\ LastInserted[1] # LastInserted[2]

\* C19: a draw(n) call that fails leaves the deck unchanged: the cards and
\* their order are after the failed call what they were before it.
C19_FailedDrawLeavesDeck ==
    (outcome.op = "draw" /\ outcome.status # "ok") => cards = outcome.before

NextDeck ==
    \/ \E number \in 0..MaxDraw : CallDraw(number) /\ UNCHANGED gameVars
    \/ \E new \in SeqsUpTo(CardKinds, MaxInsert) : CallInsert(new) /\ UNCHANGED gameVars
    \/ CallShuffle /\ UNCHANGED gameVars

SpecDeck == DeckInit /\ [][NextDeck]_vars

=============================================================================
